---- MODULE Spec2Model ----
(***************************************************************************)
(* The phase-synchronised look-ahead scheduler of the "2/1" player:        *)
(* AudioEngine (transport, offset generation, scheduler), the             *)
(* Visualization sampler and render loop, and the UIControls handlers     *)
(* that drive them.                                                        *)
(*                                                                         *)
(* Time is counted in units of 50 ms, in which every duration of the      *)
(* program is a whole number: 0.1 s = 2, 0.5 s = 10, 17.8 s = 356.         *)
(* A voice is its index in AudioEngine.voices (0..6).                      *)
(***************************************************************************)
EXTENDS Integers, Sequences, FiniteSets, TLC

\* ------------------------------------------------------------------------
\* Program constants
\* ------------------------------------------------------------------------

\* this.lookahead = 0.1 s: the delay of the scheduler's setTimeout
lookahead == 2

\* this.scheduleAheadTime = 0.5 s: the look-ahead window
scheduleAheadTime == 10

\* the 100 ms setTimeout that restarts playback after a regenerate
restartDelay == 2

\* this.voices.length
NumVoices == 7

Voices == 0..(NumVoices - 1)

\* the voices' loopDuration, in order: 17.8, 20.1, 31.8, 19.6, 16.2, 21.3, 24.7 s
LoopTable == <<356, 402, 636, 392, 324, 426, 494>>

loopDuration(v) == LoopTable[v + 1]

\* the voices' note, in order (the key findIndex looks a voice up by)
NoteTable == <<"High Ab", "C", "Db", "High F", "Eb", "Low Ab", "Low F">>

note(v) == NoteTable[v + 1]

\* this.voices.findIndex(v => v.note === voice.note), for voice v of this.voices
findIndex(v) == CHOOSE i \in Voices :
    /\ note(i) = note(v)
    /\ \A j \in Voices : note(j) = note(v) => i <= j

\* the voices' baseFrequency, in order, in units of 0.005 Hz: 830.61, 523.25,
\* 554.37, 698.46, 622.25, 415.30, 349.23 Hz
BaseFrequencyTable == <<166122, 104650, 110874, 139692, 124450, 83060, 69846>>

baseFrequency(v) == BaseFrequencyTable[v + 1]

\* baseFrequency * Math.pow(2, shift)
shiftedFrequency(base, shift) ==
    IF shift >= 0 THEN base * (2 ^ shift) ELSE base \div (2 ^ (0 - shift))

\* `typeof voice.randomOffset === 'undefined'`: the field has not been assigned
undefined == -1

\* a timer id that is null (setTimeout's ids are positive)
null == 0

\* ------------------------------------------------------------------------
\* Bounds of the model
\* ------------------------------------------------------------------------

\* calls and events from outside come in the first MaxTime units of time after
\* the page loaded
MaxTime == 13

\* a long run (at most one call from outside, in its first LongWindow units,
\* and every timer on time) is followed for LongTime units: past the second
\* trigger of the two shortest loops
LongTime == 370

LongWindow == 2

\* in a short run timer callbacks run late (after their delay has elapsed) by
\* MaxLate units in all
MaxLate == 1

\* the number of calls and events from outside (clicks, API calls, suspensions)
\* in a short run
MaxOps == 2

\* the outcomes of Math.random() are the tables 0..MaxDraw of OffsetDraw
MaxDraw == 1

\* the calls of the transport in a run of play() and pause() alone
MaxCalls == 3

\* the time a run with a delayed restart is followed for (the restart's delay
\* is 2 units)
RestartTime == 4

\* the calls from outside in a run with a delayed restart
MaxRestartCalls == 4

\* the clicks and suspensions in a run of the page's buttons with a delayed
\* restart
MaxClicks == 5

\* the time a run of one voice's worked scenario is followed for (two loops of 20.1 s)
ScenarioTime == 710

\* a short run is followed until every timer armed in its first MaxTime units is due
ShortTime == MaxTime + restartDelay

\* ------------------------------------------------------------------------
\* Pure functions
\* ------------------------------------------------------------------------

\* `voice.randomOffset || 0`
orZero(x) == IF x = undefined THEN 0 ELSE x

\* variant: the offset is subtracted from the elapsed time
adjustedElapsedTime_subtracted(startT, offset, currentTime) == (currentTime - startT) - offset

\* scheduleNotes: adjustedElapsedTime
adjustedElapsedTime(startT, offset, currentTime) == (currentTime - startT) + offset

\* scheduleNotes: completeLoops = Math.floor(adjustedElapsedTime / loopDuration)
completeLoops(startT, offset, L, currentTime) ==
    adjustedElapsedTime(startT, offset, currentTime) \div L

\* variant: the next crossing at or after the reading (the loops counted with a
\* ceiling instead of floor + 1)
nextNoteTime_atOrAfter(startT, offset, L, currentTime) ==
    startT + ((adjustedElapsedTime(startT, offset, currentTime) + L - 1) \div L) * L - offset

\* variant: the next trigger counted from the reading of the tick
nextNoteTime_fromTick(startT, offset, L, currentTime) == currentTime + L - offset

\* variant: the next trigger on the grid of the origin, the phase left out
nextNoteTime_noPhase(startT, offset, L, currentTime) ==
    startT + (completeLoops(startT, offset, L, currentTime) + 1) * L

\* scheduleNotes: nextNoteTime
nextNoteTime(startT, offset, L, currentTime) ==
    startT + (completeLoops(startT, offset, L, currentTime) + 1) * L - offset

\* variant: the first crossing a whole loop after the start, whatever the phase
timeUntilCrossing_fullLoop(offset, L) == L

\* scheduleInitialNotes: timeUntilCrossing
timeUntilCrossing(offset, L) == L - offset

\* variant: the sampler without the voice's offset
loopPositionPlaying_noOffset(playbackTime, offset, L) == L - (playbackTime % L)

\* variant: the adjusted elapsed time is not wrapped into the loop
loopPositionPlaying_noWrap(playbackTime, offset, L) == L - (playbackTime + offset)

\* drawDots while playing: loopPosition = 1 - ((t + offset) % L) / L, returned
\* as its numerator over L (a value in 1..L; L means loopPosition = 1)
loopPositionPlaying(playbackTime, offset, L) == L - ((playbackTime + offset) % L)

\* variant: the idle position is the offset itself, not inverted
loopPositionIdle_notInverted(offset, L) == offset

\* drawDots while not playing: loopPosition = 1 - offset / L, as its numerator
loopPositionIdle(offset, L) == L - offset

\* one outcome of the seven Math.random() calls of an offset generation, as
\* the offsets randomPosition * loopDuration it yields. Table 0 is
\* Math.random() = 0 for every voice; the others put each voice a few units
\* before its first playhead crossing.
drawDistance(v, d) == ((v + 8 * d) % 13) + 1

\* variant: every voice's randomPosition is scaled by the longest loop
OffsetDraw_longestLoop(d) ==
    [v \in Voices |-> IF d = 0 THEN 0 ELSE loopDuration(2) - drawDistance(v, d)]

OffsetDraw(d) ==
    [v \in Voices |-> IF d = 0 THEN 0 ELSE loopDuration(v) - drawDistance(v, d)]

Draws == 0..MaxDraw

\* the outcomes of the forEach's Math.random() calls, one per voice: voice v
\* gets its entry of table outcome[v]
Outcomes == [Voices -> Draws]

\* ------------------------------------------------------------------------
\* State
\* ------------------------------------------------------------------------

VARIABLES
    now,             \* audioContext.currentTime
    wall,            \* the time passed since the page loaded
    ctxState,        \* audioContext.state: "none" (no context yet), "suspended", "running"
    isPlaying,       \* AudioEngine.isPlaying
    startTime,       \* AudioEngine.startTime
    scheduledNotes,  \* AudioEngine.scheduledNotes: the sources playNote created
    schedulerTimer,  \* AudioEngine.schedulerTimer: a timer id, or null
    randomOffset,    \* voice.randomOffset of each voice (the array shared with the visualization)
    timers,          \* the pending setTimeout callbacks: [id, kind, remaining]
    resumeWaiters,   \* the callbacks waiting on pending audioContext.resume() promises
    isLoaded,        \* UIControls.isLoaded
    booted,          \* which of the page's start-up steps have run
    isAnimating,     \* Visualization.isAnimating
    rafPending,      \* the number of pending requestAnimationFrame callbacks
    drawnOffsets,    \* the offsets the latest draw() placed the dots by
    visVoices,       \* Visualization.voices: which array it is, and its offsets if it is its own
    onNoteStart,     \* AudioEngine.onNoteStart: "null", or the listener's name
    initPromise,     \* the promise audioEngine.init() returned: "none" (not called),
                     \* "pending", "fulfilled: true", "fulfilled: false", "rejected"
    loadingIndicator,\* UIControls.loadingIndicator: "hidden", "loading", "error"
    playPauseButtonDisabled, \* UIControls.playPauseButton.disabled
    octaveShift,     \* AudioEngine.octaveShift
    frequency,       \* voice.frequency of each voice
    orbitRadius,     \* voice.orbitRadius of each voice (undefined until assigned)
    container,       \* the canvas's parent element: [clientWidth, clientHeight]
    maxRadius,       \* Visualization.maxRadius
    log,             \* history: the commits of the current session, [voice, time, at, via]
    lastTick,        \* history: what the latest scheduleNotes read and computed
    pausedSession,   \* history: the session the latest pause() ended, [origin, at, log]
    playStateChanges,\* history: the values onPlayStateChange has been called with
    unstopped,       \* history: the sources playNote has created since the engine last
                     \* became playing on which stop() has not been called
    lastOp,          \* history: the latest call or event from outside
    horizon,         \* the time the run is followed for
    opsLeft,         \* the calls and events from outside still allowed
    lateLeft         \* the units by which timer callbacks may still run late

vars == <<now, wall, ctxState, isPlaying, startTime, scheduledNotes, schedulerTimer,
          randomOffset, timers, resumeWaiters, isLoaded, booted, isAnimating,
          rafPending, drawnOffsets, visVoices, onNoteStart, initPromise,
          loadingIndicator, playPauseButtonDisabled, octaveShift, frequency,
          orbitRadius, container, maxRadius, log, lastTick, pausedSession, unstopped,
          playStateChanges, lastOp, horizon, opsLeft, lateLeft>>

\* the program's state as one record, on which the handlers below are functions
State ==
    [ctxState |-> ctxState, isPlaying |-> isPlaying, startTime |-> startTime,
     scheduledNotes |-> scheduledNotes, schedulerTimer |-> schedulerTimer,
     randomOffset |-> randomOffset, timers |-> timers,
     resumeWaiters |-> resumeWaiters, isLoaded |-> isLoaded,
     isAnimating |-> isAnimating, rafPending |-> rafPending,
     drawnOffsets |-> drawnOffsets, visVoices |-> visVoices,
     onNoteStart |-> onNoteStart, initPromise |-> initPromise,
     loadingIndicator |-> loadingIndicator,
     playPauseButtonDisabled |-> playPauseButtonDisabled,
     octaveShift |-> octaveShift, frequency |-> frequency, orbitRadius |-> orbitRadius,
     container |-> container, maxRadius |-> maxRadius, log |-> log,
     lastTick |-> lastTick,
     pausedSession |-> pausedSession, unstopped |-> unstopped,
     playStateChanges |-> playStateChanges]

\* the state after a handler has run
Becomes(s) ==
    /\ ctxState' = s.ctxState
    /\ isPlaying' = s.isPlaying
    /\ startTime' = s.startTime
    /\ scheduledNotes' = s.scheduledNotes
    /\ schedulerTimer' = s.schedulerTimer
    /\ randomOffset' = s.randomOffset
    /\ timers' = s.timers
    /\ resumeWaiters' = s.resumeWaiters
    /\ isLoaded' = s.isLoaded
    /\ isAnimating' = s.isAnimating
    /\ rafPending' = s.rafPending
    /\ drawnOffsets' = s.drawnOffsets
    /\ visVoices' = s.visVoices
    /\ onNoteStart' = s.onNoteStart
    /\ initPromise' = s.initPromise
    /\ loadingIndicator' = s.loadingIndicator
    /\ playPauseButtonDisabled' = s.playPauseButtonDisabled
    /\ octaveShift' = s.octaveShift
    /\ frequency' = s.frequency
    /\ orbitRadius' = s.orbitRadius
    /\ container' = s.container
    /\ maxRadius' = s.maxRadius
    /\ log' = s.log
    /\ lastTick' = s.lastTick
    /\ pausedSession' = s.pausedSession
    /\ unstopped' = s.unstopped
    /\ playStateChanges' = s.playStateChanges

\* ------------------------------------------------------------------------
\* Timers
\* ------------------------------------------------------------------------

\* setTimeout returns an id no pending timer has (and that schedulerTimer does not hold)
freshId(s) ==
    CHOOSE n \in 1..(Cardinality(s.timers) + 2) :
        /\ n # s.schedulerTimer
        /\ \A t \in s.timers : t.id # n
        /\ \A m \in 1..(n - 1) : m = s.schedulerTimer \/ \E t \in s.timers : t.id = m

\* clearTimeout(id)
clearTimeout(s, id) == [s EXCEPT !.timers = {t \in @ : t.id # id}]

\* ------------------------------------------------------------------------
\* AudioEngine
\* ------------------------------------------------------------------------

\* playNote: creates a source that starts at `time` and stores it in scheduledNotes
playNote(s, voiceFrequency, time) ==
    [s EXCEPT !.scheduledNotes = Append(@, [frequency |-> voiceFrequency, time |-> time]),
              !.unstopped = @ + 1]

\* UIControls.handleNoteStart(voiceIndex, time), which passes the event to
\* visualization.onNoteStart (whose body is empty): the notification is recorded
handleNoteStart(s, voiceIndex, time, via) ==
    [s EXCEPT !.log = Append(@, [voice |-> voiceIndex, time |-> time, at |-> now, via |-> via])]

\* variant: the start pass plays its notes without notifying
commitNote_silentStart(s, v, voiceIndex, time, via) ==
    LET played == playNote(s, s.frequency[v], time)
    IN  IF played.onNoteStart # "null" /\ via # "initial"
        THEN handleNoteStart(played, voiceIndex, time, via)
        ELSE played

\* a commit of voice v: playNote(voice.frequency, time, ...) and then
\* `if (this.onNoteStart) this.onNoteStart(voiceIndex, time)`
commitNote(s, v, voiceIndex, time, via) ==
    LET played == playNote(s, s.frequency[v], time)
    IN  IF played.onNoteStart # "null"
        THEN handleNoteStart(played, voiceIndex, time, via)
        ELSE played

\* variant: the first crossing is taken from clock reading 0, not from startTime
scheduleInitialVoice_fromZero(s, v) ==
    LET offset == orZero(s.randomOffset[v])
        noteTime == timeUntilCrossing(offset, loopDuration(v))
    IN  IF timeUntilCrossing(offset, loopDuration(v)) < scheduleAheadTime
        THEN commitNote(s, v, findIndex(v), noteTime, "initial")
        ELSE s

\* scheduleInitialNotes: the body of its forEach, for voice v
scheduleInitialVoice(s, v) ==
    LET offset == orZero(s.randomOffset[v])
        noteTime == s.startTime + timeUntilCrossing(offset, loopDuration(v))
    IN  IF timeUntilCrossing(offset, loopDuration(v)) < scheduleAheadTime
        THEN commitNote(s, v, findIndex(v), noteTime, "initial")
        ELSE s

RECURSIVE scheduleInitialFrom(_, _)
scheduleInitialFrom(s, v) ==
    IF v >= NumVoices THEN s
    ELSE scheduleInitialFrom(scheduleInitialVoice(s, v), v + 1)

scheduleInitialNotes(s) == scheduleInitialFrom(s, 0)

\* variant: the window of a tick is its own interval, not scheduleAheadTime
scheduleVoice_tickWindow(s, v, currentTime) ==
    LET offset == orZero(s.randomOffset[v])
        next == nextNoteTime(s.startTime, offset, loopDuration(v), currentTime)
        lookAheadEnd == currentTime + lookahead
    IN  IF next < lookAheadEnd
        THEN commitNote(s, v, v, next, "tick")
        ELSE s

\* variant: the end of the window is inside the window
scheduleVoice_inclusive(s, v, currentTime) ==
    LET offset == orZero(s.randomOffset[v])
        next == nextNoteTime(s.startTime, offset, loopDuration(v), currentTime)
        lookAheadEnd == currentTime + scheduleAheadTime
    IN  IF next <= lookAheadEnd
        THEN commitNote(s, v, v, next, "tick")
        ELSE s

\* scheduleNotes: the body of its forEach, for voice v
scheduleVoice(s, v, currentTime) ==
    LET offset == orZero(s.randomOffset[v])
        next == nextNoteTime(s.startTime, offset, loopDuration(v), currentTime)
        lookAheadEnd == currentTime + scheduleAheadTime
    IN  IF next < lookAheadEnd
        THEN commitNote(s, v, v, next, "tick")
        ELSE s

RECURSIVE scheduleFrom(_, _, _)
scheduleFrom(s, v, currentTime) ==
    IF v >= NumVoices THEN s
    ELSE scheduleFrom(scheduleVoice(s, v, currentTime), v + 1, currentTime)

\* scheduleNotes when playNote throws for voice `failing`: the forEach has run
\* the voices before it, the exception leaves playNote before its push to
\* scheduledNotes and leaves scheduleNotes before onNoteStart and before the
\* setTimeout that re-arms the tick (nothing catches it on the way)
RECURSIVE scheduleBefore(_, _, _, _)
scheduleBefore(s, v, failing, currentTime) ==
    IF v >= failing THEN s
    ELSE scheduleBefore(scheduleVoice(s, v, currentTime), v + 1, failing, currentTime)

scheduleNotesThrows(s, failing) == scheduleBefore(s, 0, failing, now)

\* scheduleNotes: one tick, and the re-arm of the timer
scheduleNotes(s) ==
    LET done == scheduleFrom(s, 0, now)
        id == freshId(done)
    IN  [done EXCEPT
            !.schedulerTimer = id,
            !.timers = @ \cup {[id |-> id, kind |-> "scheduler", remaining |-> lookahead]},
            !.lastTick = [at |-> now, origin |-> s.startTime, offsets |-> s.randomOffset,
                          next |-> [v \in Voices |->
                                      nextNoteTime(s.startTime, orZero(s.randomOffset[v]),
                                                   loopDuration(v), now)]]]

\* the callback of the scheduler's setTimeout
schedulerTimeout(s) == IF s.isPlaying THEN scheduleNotes(s) ELSE s

\* onPlayStateChange(value), the listener UIControls registered
onPlayStateChange(s, value) == [s EXCEPT !.playStateChanges = Append(@, value)]

\* variant: a start of playback keeps the origin the engine already holds
startPlayback_keepOrigin(s) ==
    onPlayStateChange(scheduleNotes(
        scheduleInitialNotes(
            [s EXCEPT !.isPlaying = TRUE,
                      !.scheduledNotes = <<>>,
                      !.unstopped = IF s.isPlaying THEN @ ELSE 0,
                      !.log = <<>>])), TRUE)

\* variant: a start of playback generates the random start times anew
startPlayback_regenerates(s) ==
    onPlayStateChange(scheduleNotes(
        scheduleInitialNotes(
            [s EXCEPT !.isPlaying = TRUE,
                      !.startTime = now,
                      !.scheduledNotes = <<>>,
                      !.unstopped = IF s.isPlaying THEN @ ELSE 0,
                      !.randomOffset = OffsetDraw(0),
                      !.log = <<>>])), TRUE)

startPlayback(s) ==
    onPlayStateChange(scheduleNotes(
        scheduleInitialNotes(
            [s EXCEPT !.isPlaying = TRUE,
                      !.startTime = now,
                      !.scheduledNotes = <<>>,
                      !.unstopped = IF s.isPlaying THEN @ ELSE 0,
                      !.log = <<>>])), TRUE)

play(s) ==
    IF s.isPlaying THEN s
    ELSE IF s.ctxState = "suspended"
         THEN [s EXCEPT !.resumeWaiters = Append(@, "startPlayback")]
         ELSE startPlayback(s)

\* variant: pause() without clearTimeout
pause_noClear(s) ==
    IF ~s.isPlaying THEN s
    ELSE [s EXCEPT !.isPlaying = FALSE, !.scheduledNotes = <<>>,
                   !.unstopped = @ - Len(s.scheduledNotes),
                   !.playStateChanges = Append(@, FALSE),
                   !.pausedSession = [origin |-> s.startTime, at |-> now, log |-> s.log]]

\* variant: pause() notifies the listener even when the engine is not playing
pause_alwaysNotifies(s) ==
    LET cleared == IF s.schedulerTimer # null
                   THEN [clearTimeout(s, s.schedulerTimer) EXCEPT !.schedulerTimer = null]
                   ELSE s
    IN  IF ~s.isPlaying THEN onPlayStateChange(s, FALSE)
        ELSE [cleared EXCEPT !.isPlaying = FALSE, !.scheduledNotes = <<>>,
                             !.unstopped = @ - Len(s.scheduledNotes),
                             !.playStateChanges = Append(@, FALSE),
                             !.pausedSession = [origin |-> s.startTime, at |-> now, log |-> s.log]]

pause(s) ==
    IF ~s.isPlaying THEN s
    ELSE LET cleared == IF s.schedulerTimer # null
                        THEN [clearTimeout(s, s.schedulerTimer) EXCEPT !.schedulerTimer = null]
                        ELSE s
         IN  [cleared EXCEPT !.isPlaying = FALSE, !.scheduledNotes = <<>>,
                             !.unstopped = @ - Len(s.scheduledNotes),
                             !.playStateChanges = Append(@, FALSE),
                             !.pausedSession = [origin |-> s.startTime, at |-> now, log |-> s.log]]

togglePlayPause(s) == IF s.isPlaying THEN pause(s) ELSE play(s)

\* variant: the octave is stored and the voices are left as they are
setOctaveShift_storedOnly(s, shift) ==
    LET shifted == [s EXCEPT !.octaveShift = shift]
    IN  IF s.isPlaying
        THEN LET paused == pause(shifted)
             IN  [paused EXCEPT !.timers = @ \cup {[id |-> freshId(paused),
                                                     kind |-> "octave",
                                                     remaining |-> restartDelay]}]
        ELSE shifted

\* setOctaveShift(shift): every voice.frequency is recomputed; while playing,
\* pause() and setTimeout(() => this.play(), 100)
setOctaveShift(s, shift) ==
    LET shifted == [s EXCEPT !.octaveShift = shift,
                             !.frequency = [v \in Voices |->
                                              shiftedFrequency(baseFrequency(v), shift)]]
    IN  IF s.isPlaying
        THEN LET paused == pause(shifted)
             IN  [paused EXCEPT !.timers = @ \cup {[id |-> freshId(paused),
                                                     kind |-> "octave",
                                                     remaining |-> restartDelay]}]
        ELSE shifted

\* variant: a forced generation re-rolls the first voice only
generateRandomStartTimes_firstVoice(s, forceRegenerate, draw) ==
    [s EXCEPT !.randomOffset =
        [v \in Voices |->
            IF (forceRegenerate /\ v = 0) \/ @[v] = undefined
            THEN OffsetDraw(draw)[v] ELSE @[v]]]

\* variant: every generation re-rolls, forced or not
generateRandomStartTimes_always(s, forceRegenerate, draw) ==
    [s EXCEPT !.randomOffset = OffsetDraw(draw)]

\* generateRandomStartTimes(forceRegenerate), Math.random() yielding table `draw`
generateRandomStartTimes(s, forceRegenerate, draw) ==
    [s EXCEPT !.randomOffset =
        [v \in Voices |->
            IF forceRegenerate \/ @[v] = undefined THEN OffsetDraw(draw)[v] ELSE @[v]]]

\* generateRandomStartTimes(forceRegenerate), each voice's Math.random() call
\* having its own outcome
generateRandomStartTimesEach(s, forceRegenerate, outcome) ==
    [s EXCEPT !.randomOffset =
        [v \in Voices |->
            generateRandomStartTimes(s, forceRegenerate, outcome[v]).randomOffset[v]]]

\* ------------------------------------------------------------------------
\* Visualization
\* ------------------------------------------------------------------------

\* variant: getVoices() hands out a copy of the voices
getVoices_copy(s) == [array |-> "own", offsets |-> s.randomOffset]

\* getVoices(): returns this.voices, the engine's own array, not a copy
getVoices(s) == [array |-> "audioEngine.voices", offsets |-> [v \in Voices |-> undefined]]

\* the randomOffset of every voice as read through Visualization.voices
voicesOfVisualization(s) ==
    IF s.visVoices.array = "audioEngine.voices" THEN s.randomOffset
    ELSE s.visVoices.offsets

\* an assignment of randomOffset through Visualization.voices: it lands in the
\* engine's voices when the array is the engine's
assignThroughVisualization(s, offsets) ==
    IF s.visVoices.array = "audioEngine.voices"
    THEN [s EXCEPT !.randomOffset = offsets]
    ELSE [s EXCEPT !.visVoices.offsets = offsets]

\* variant: a draw takes the clock reading as the origin of the dots
draw_resetsOrigin(s) ==
    [s EXCEPT !.drawnOffsets = voicesOfVisualization(s), !.startTime = now]

\* draw(): drawDots places every voice's dot by the randomOffset of this.voices
draw(s) == [s EXCEPT !.drawnOffsets = voicesOfVisualization(s)]

\* calculateInitialOffsets(forceUpdate = false), Math.random() yielding table `d`
calculateInitialOffsets(s, d) ==
    LET mine == voicesOfVisualization(s)
        offsetsChanged == \E v \in Voices : mine[v] = undefined
        filled == [v \in Voices |->
                      IF mine[v] = undefined THEN OffsetDraw(d)[v] ELSE mine[v]]
    IN  IF offsetsChanged THEN draw(assignThroughVisualization(s, filled)) ELSE s

\* calculateInitialOffsets(), each voice's Math.random() call having its own outcome
calculateInitialOffsetsEach(s, outcome) ==
    LET mine == voicesOfVisualization(s)
        offsetsChanged == \E v \in Voices : mine[v] = undefined
        filled == [v \in Voices |->
                      IF mine[v] = undefined THEN OffsetDraw(outcome[v])[v] ELSE mine[v]]
    IN  IF offsetsChanged THEN draw(assignThroughVisualization(s, filled)) ELSE s

\* Visualization.init(): this.voices = audioEngine.getVoices()
\* the place of voice v in [...this.voices].sort((a, b) => b.loopDuration - a.loopDuration)
sortedIndex(v) ==
    Cardinality({u \in Voices :
        \/ loopDuration(u) > loopDuration(v)
        \/ loopDuration(u) = loopDuration(v) /\ u < v})

\* calculateOrbitRadii: over the visualization's own empty array it assigns
\* nothing; over the engine's array it assigns orbitRadius on the engine's voices
calculateOrbitRadii(s) ==
    IF s.visVoices.array = "audioEngine.voices"
    THEN LET minRadius == (s.maxRadius * 2) \div 10
             radiusStep == (s.maxRadius - minRadius) \div (NumVoices - 1)
         IN  [s EXCEPT !.orbitRadius =
                 [v \in Voices |-> s.maxRadius - sortedIndex(findIndex(v)) * radiusStep]]
    ELSE s

\* resize(): the canvas takes the container's size
resize(s) ==
    LET centerX == s.container.clientWidth \div 2
        centerY == s.container.clientHeight \div 2
        smaller == IF centerX < centerY THEN centerX ELSE centerY
    IN  draw(calculateOrbitRadii([s EXCEPT !.maxRadius = (smaller * 85) \div 100]))

takeVoices(s) == [s EXCEPT !.visVoices = getVoices(s)]

\* startAnimation(): the first animate() draws and requests the next frame
startAnimation(s) ==
    IF s.isAnimating THEN s
    ELSE [draw([s EXCEPT !.isAnimating = TRUE]) EXCEPT !.rafPending = @ + 1]

\* stopAnimation(): cancels the requested frame and draws the paused state
stopAnimation(s) ==
    draw([s EXCEPT !.isAnimating = FALSE,
                   !.rafPending = IF @ > 0 THEN @ - 1 ELSE 0])

\* animate(), as a requestAnimationFrame callback
animate(s) ==
    LET drawn == draw(s)
    IN  IF drawn.isAnimating THEN drawn ELSE [drawn EXCEPT !.rafPending = @ - 1]

\* ------------------------------------------------------------------------
\* UIControls
\* ------------------------------------------------------------------------

\* UIControls.init() up to its call of audioEngine.init(), and audioEngine.init()
\* up to its first await: the loading indicator is shown, the play button is
\* disabled, the listeners are registered, the audio context is created in
\* state `c`
uiControlsInit(s, c) ==
    [s EXCEPT !.loadingIndicator = "loading",
              !.playPauseButtonDisabled = TRUE,
              !.onNoteStart = "handleNoteStart",
              !.ctxState = c,
              !.initPromise = "pending"]

\* UIControls.handleAudioLoaded, the engine's onLoaded listener
handleAudioLoaded(s) ==
    [s EXCEPT !.isLoaded = TRUE,
              !.loadingIndicator = "hidden",
              !.playPauseButtonDisabled = FALSE]

\* UIControls.showError
showError(s) == [s EXCEPT !.loadingIndicator = "error"]

\* audioEngine.init().catch(error => this.showError(...)): the promise settles
\* as `outcome`, and the catch callback runs when it is rejected
initSettles(s, outcome) ==
    IF outcome = "rejected"
    THEN showError([s EXCEPT !.initPromise = outcome])
    ELSE [s EXCEPT !.initPromise = outcome]

\* audioEngine.init() after its awaits, Math.random() yielding table `d`:
\* generateRandomStartTimes(), onLoaded(), return true
initCompletes(s, d) ==
    initSettles(handleAudioLoaded(generateRandomStartTimes(s, FALSE, d)), "fulfilled: true")

\* an error is thrown inside audioEngine.init(): its own catch logs it and
\* returns false, so the promise is fulfilled with false
initThrows(s) == initSettles(s, "fulfilled: false")

setTimeout(s, kind, delay) ==
    [s EXCEPT !.timers = @ \cup {[id |-> freshId(s), kind |-> kind, remaining |-> delay]}]

proceedWithPlayback(s) ==
    LET toggled == togglePlayPause(s)
    IN  IF toggled.isPlaying THEN startAnimation(toggled) ELSE stopAnimation(toggled)

\* variant: the click handler without the isLoaded check
handlePlayPauseClick_unguarded(s) ==
    IF s.ctxState = "suspended"
    THEN [s EXCEPT !.resumeWaiters = Append(@, "proceedWithPlayback")]
    ELSE proceedWithPlayback(s)

handlePlayPauseClick(s) ==
    IF ~s.isLoaded THEN s
    ELSE IF s.ctxState = "suspended"
         THEN [s EXCEPT !.resumeWaiters = Append(@, "proceedWithPlayback")]
         ELSE proceedWithPlayback(s)

\* handleRegenerateClick, Math.random() yielding table `d`
handleRegenerateClick(s, d) ==
    LET wasPlaying == s.isPlaying
        paused == IF wasPlaying THEN stopAnimation(pause(s)) ELSE s
        rolled == generateRandomStartTimes(paused, TRUE, d)
        drawn == draw(calculateInitialOffsets(rolled, d))
    IN  IF wasPlaying THEN setTimeout(drawn, "restart", restartDelay) ELSE drawn

\* variant: the restart callback without play()
restartTimeout_noPlay(s) == startAnimation(s)

\* the callback of handleRegenerateClick's setTimeout
restartTimeout(s) == startAnimation(play(s))

\* variant: the catch callback of play() starts the playback all the same
resumeRejected_startsAnyway(s) ==
    LET dropped == [s EXCEPT !.resumeWaiters = <<>>]
    IN  IF \E i \in DOMAIN s.resumeWaiters : s.resumeWaiters[i] = "startPlayback"
        THEN startPlayback(dropped)
        ELSE dropped

\* the pending resume() promises are rejected: the then-callbacks are dropped;
\* play()'s catch callback logs the error, handlePlayPauseClick has no catch
resumeRejected(s) == [s EXCEPT !.resumeWaiters = <<>>]

\* the callback attached to a resume() promise: play()'s or handlePlayPauseClick's
runWaiter(s, w) ==
    IF w = "startPlayback" THEN startPlayback(s) ELSE proceedWithPlayback(s)

\* ------------------------------------------------------------------------
\* Actions
\* ------------------------------------------------------------------------

\* pausedSession before the first pause()
NoSession == [origin |-> undefined, at |-> undefined, log |-> <<>>]

\* lastTick before the first scheduleNotes
NoTick == [at |-> -1, origin |-> 0, offsets |-> [v \in Voices |-> undefined],
           next |-> [v \in Voices |-> 0]]

\* the page has loaded its scripts: the objects are constructed, nothing has run
Loaded ==
    /\ now = 0
    /\ wall = 0
    /\ ctxState = "none"
    /\ isPlaying = FALSE
    /\ startTime = 0
    /\ scheduledNotes = <<>>
    /\ schedulerTimer = null
    /\ randomOffset = [v \in Voices |-> undefined]
    /\ timers = {}
    /\ resumeWaiters = <<>>
    /\ isLoaded = FALSE
    /\ booted = {}
    /\ isAnimating = FALSE
    /\ rafPending = 0
    /\ drawnOffsets = [v \in Voices |-> undefined]
    /\ visVoices = [array |-> "own", offsets |-> [v \in Voices |-> undefined]]
    /\ onNoteStart = "null"
    /\ initPromise = "none"
    /\ loadingIndicator = "hidden"
    /\ playPauseButtonDisabled = FALSE
    /\ octaveShift = -1
    /\ frequency = [v \in Voices |-> shiftedFrequency(baseFrequency(v), -1)]
    /\ orbitRadius = [v \in Voices |-> undefined]
    /\ container = [clientWidth |-> 600, clientHeight |-> 600]
    /\ maxRadius = undefined
    /\ log = <<>>
    /\ lastTick = NoTick
    /\ pausedSession = NoSession
    /\ unstopped = 0
    /\ playStateChanges = <<>>
    /\ lastOp = "load"

\* a short run of up to ops calls from outside
ShortRun(ops) == horizon = ShortTime /\ opsLeft = ops /\ lateLeft = MaxLate

LongRun == horizon = LongTime /\ opsLeft = 1 /\ lateLeft = 0

Init == Loaded /\ (ShortRun(MaxOps) \/ LongRun)

\* the runs of at most one call from outside
InitOneCall == Loaded /\ (ShortRun(1) \/ LongRun)

\* the part of the run in which the calls and events from outside come
Window == IF horizon = LongTime THEN LongWindow ELSE MaxTime

\* no callback of a resolved resume() promise is waiting to run: such callbacks
\* are microtasks, which run before any other task
Settled == ctxState # "running" \/ resumeWaiters = <<>>

Ready == booted = {"visualization", "ui"}

\* DOMContentLoaded: new Visualization(), whose init() calls calculateInitialOffsets and draw
VisualizationInit ==
    /\ "visualization" \notin booted
    /\ wall < Window
    /\ \E d \in Draws :
          Becomes(draw(calculateInitialOffsets(
                          calculateOrbitRadii(takeVoices(resize(State))), d)))
    /\ booted' = booted \cup {"visualization"}
    /\ UNCHANGED <<now, wall, lastOp, horizon, opsLeft, lateLeft>>

\* DOMContentLoaded: new UIControls(), whose init() runs audioEngine.init() to its end
EngineInit ==
    /\ "ui" \notin booted
    /\ wall < Window
    /\ \E d \in Draws, c \in {"suspended", "running"} :
          Becomes(initCompletes(uiControlsInit(State, c), d))
    /\ booted' = booted \cup {"ui"}
    /\ UNCHANGED <<now, wall, lastOp, horizon, opsLeft, lateLeft>>

\* a call or event from outside uses up one of opsLeft
External(op, s) ==
    /\ Ready
    /\ Settled
    /\ wall < Window
    /\ opsLeft > 0
    /\ opsLeft' = opsLeft - 1
    /\ lastOp' = op
    /\ Becomes(s)
    /\ UNCHANGED <<now, wall, booted, horizon, lateLeft>>

Play == External("play", play(State))

Pause == External("pause", pause(State))

TogglePlayPause == External("togglePlayPause", togglePlayPause(State))

\* generateRandomStartTimes() called as init() and the tests call it, without
\* forceRegenerate (only handleRegenerateClick passes true)
GenerateRandomStartTimes == \E d \in Draws :
    External("generateRandomStartTimes", generateRandomStartTimes(State, FALSE, d))

HandlePlayPauseClick == External("handlePlayPauseClick", handlePlayPauseClick(State))

HandleRegenerateClick == \E d \in Draws :
    External("handleRegenerateClick", handleRegenerateClick(State, d))

\* the platform suspends the audio context (an interruption, a policy)
Suspend ==
    /\ ctxState = "running"
    /\ External("suspend", [State EXCEPT !.ctxState = "suspended"])

\* the audio context starts running: every pending resume() promise resolves
ResumeResolves ==
    /\ ctxState = "suspended"
    /\ wall <= Window + restartDelay
    /\ Becomes([State EXCEPT !.ctxState = "running"])
    /\ UNCHANGED <<now, wall, booted, lastOp, horizon, opsLeft, lateLeft>>

\* the callback of the oldest resolved resume() promise runs
RunWaiter ==
    /\ ~Settled
    /\ Becomes(runWaiter([State EXCEPT !.resumeWaiters = Tail(@)], Head(resumeWaiters)))
    /\ UNCHANGED <<now, wall, booted, lastOp, horizon, opsLeft, lateLeft>>

\* time passes by one unit; the audio clock follows while the context runs
AdvanceClock ==
    /\ Settled
    /\ IF \E t \in timers : t.remaining <= 0
       THEN lateLeft > 0 /\ lateLeft' = lateLeft - 1
       ELSE lateLeft' = lateLeft
    /\ wall < horizon
    /\ wall' = wall + 1
    /\ now' = IF ctxState = "running" THEN now + 1 ELSE now
    /\ timers' = {[t EXCEPT !.remaining = @ - 1] : t \in timers}
    /\ UNCHANGED <<ctxState, isPlaying, startTime, scheduledNotes, schedulerTimer,
                   randomOffset, resumeWaiters, isLoaded, booted, isAnimating,
                   rafPending, drawnOffsets, visVoices, onNoteStart, initPromise,
                   loadingIndicator, playPauseButtonDisabled, octaveShift,
                   frequency, orbitRadius, container, maxRadius, log, lastTick, pausedSession,
                   unstopped, playStateChanges, lastOp, horizon, opsLeft>>

\* a setTimeout callback whose delay has elapsed runs
TimerFires(t) ==
    /\ Settled
    /\ t \in timers
    /\ t.remaining <= 0
    /\ LET popped == [State EXCEPT !.timers = @ \ {t}]
       IN  Becomes(IF t.kind = "scheduler" THEN schedulerTimeout(popped)
                   ELSE IF t.kind = "restart" THEN restartTimeout(popped)
                   ELSE play(popped))
    /\ UNCHANGED <<now, wall, booted, lastOp, horizon, opsLeft, lateLeft>>

SchedulerTick == \E t \in timers : t.kind = "scheduler" /\ TimerFires(t)

RestartFires == \E t \in timers : t.kind = "restart" /\ TimerFires(t)

\* a requestAnimationFrame callback runs
Frame ==
    /\ Settled
    /\ rafPending > 0
    /\ Becomes(animate(State))
    /\ UNCHANGED <<now, wall, booted, lastOp, horizon, opsLeft, lateLeft>>

\* the steps of a run of at most one call from outside (no regenerate while
\* playing, hence no restart timer)
NextOneCall ==
    \/ VisualizationInit
    \/ EngineInit
    \/ Play
    \/ Pause
    \/ TogglePlayPause
    \/ GenerateRandomStartTimes
    \/ HandlePlayPauseClick
    \/ HandleRegenerateClick
    \/ Suspend
    \/ ResumeResolves
    \/ RunWaiter
    \/ AdvanceClock
    \/ SchedulerTick
    \/ Frame

Next ==
    \/ NextOneCall
    \/ RestartFires

Spec == Init /\ [][Next]_vars

SpecOneCall == InitOneCall /\ [][NextOneCall]_vars

\* ------------------------------------------------------------------------
\* Properties
\* ------------------------------------------------------------------------

\* the phase sampler of drawDots for voice v at the audio clock reading T of the
\* current session is at the reference (loopPosition = 1, which is 0 modulo 1)
AtReference(v, T) ==
    loopPositionPlaying(T - startTime, orZero(randomOffset[v]), loopDuration(v))
        = loopDuration(v)

\* the commits of the current session for voice v at the instant T
CommitsOf(v, T) == {i \in DOMAIN log : log[i].voice = v /\ log[i].time = T}

\* the loop counts k a run can reach for voice v
Loops(v) == 1..((LongTime \div loopDuration(v)) + 1)

\* the trigger instant startTime + k * loopDuration - randomOffset of voice v
TriggerInstant(v, k) == startTime + k * loopDuration(v) - orZero(randomOffset[v])

\* C1 as stated: while playing, for every clock reading T >= startTime, the
\* sampler of a voice is at the reference at T if and only if T is a trigger
\* instant the scheduler committed for that voice.
C1_AsStated ==
    isPlaying =>
        \A v \in Voices : AtReference(v, now) <=> CommitsOf(v, now) # {}

\* C1: while playing, for every clock reading T strictly after startTime, the
\* sampler of a voice is at the reference at T if and only if T is a trigger
\* instant the scheduler committed for that voice (at T = startTime a voice of
\* offset 0 is at the reference and no trigger is there).
C1_SamplerMeetsTriggers ==
    (isPlaying /\ now > startTime) =>
        \A v \in Voices : AtReference(v, now) <=> CommitsOf(v, now) # {}

\* the clock stands on the second crossing of a voice, which was committed
C1_Witness ==
    /\ isPlaying
    /\ \E v \in Voices :
          /\ now - startTime > loopDuration(v)
          /\ AtReference(v, now)
          /\ CommitsOf(v, now) # {}

\* C2 as stated: no two commits of a session for the same voice are closer
\* together than the voice's loop period (less one unit of tolerance); in
\* particular no instant is committed twice.
C2_NoDoubleCoverage ==
    \A i, j \in DOMAIN log :
        (i < j /\ log[i].voice = log[j].voice) =>
            \/ log[j].time - log[i].time >= loopDuration(log[i].voice) - 1
            \/ log[i].time - log[j].time >= loopDuration(log[i].voice) - 1

\* C3: while the engine stays playing, every trigger instant of every voice
\* that the clock has reached was committed by a pass (scheduleInitialNotes or
\* a scheduleNotes tick) whose clock reading was earlier than the instant.
C3_NoGap ==
    isPlaying =>
        \A v \in Voices : \A k \in Loops(v) :
            TriggerInstant(v, k) <= now =>
                \E i \in CommitsOf(v, TriggerInstant(v, k)) :
                    log[i].at < TriggerInstant(v, k)

\* the second trigger of a voice has passed, committed by a tick ahead of it
C3_Witness ==
    /\ isPlaying
    /\ \E v \in Voices :
          /\ TriggerInstant(v, 2) <= now
          /\ \E i \in CommitsOf(v, TriggerInstant(v, 2)) :
                log[i].via = "tick" /\ log[i].at < TriggerInstant(v, 2)

\* C5: drift freedom: every instant committed in a session equals
\* startTime + k * loopDuration - randomOffset for a whole k >= 1, whatever the
\* times at which the ticks ran.
C5_DriftFree ==
    isPlaying =>
        \A i \in DOMAIN log :
            \E k \in Loops(log[i].voice) : log[i].time = TriggerInstant(log[i].voice, k)

\* a tick that ran late committed the second trigger of a voice
C5_Witness ==
    /\ isPlaying
    /\ \E i \in DOMAIN log :
          /\ log[i].via = "tick"
          /\ log[i].time = TriggerInstant(log[i].voice, 2)

\* the phase of a voice of offset `offset` and loop L, as the sampler computes it
\* in a session of origin `origin`, crosses the reference at the clock reading T
PhaseCrosses(origin, offset, L, T) == loopPositionPlaying(T - origin, offset, L) = L

\* a tick has just run (its re-arm timer has its whole delay to go): lastTick is
\* what it read and computed
TickJustRan ==
    /\ isPlaying
    /\ lastTick.at = now
    /\ \E t \in timers : t.id = schedulerTimer /\ t.remaining = lookahead

\* C4 as stated: at every tick, nextNoteTime of every voice is the smallest time
\* >= the tick's clock reading at which the voice's phase crosses the reference.
C4_AsStated ==
    TickJustRan =>
        \A v \in Voices :
            LET origin == lastTick.origin
                offset == orZero(lastTick.offsets[v])
                L == loopDuration(v)
                at == lastTick.at
                next == lastTick.next[v]
            IN  /\ next >= at
                /\ PhaseCrosses(origin, offset, L, next)
                /\ \A T \in at..(next - 1) : ~PhaseCrosses(origin, offset, L, T)

\* C4: at every tick, nextNoteTime of every voice is the smallest time strictly
\* after the tick's clock reading at which the voice's phase crosses the
\* reference; a tick whose reading falls exactly on a crossing computes the
\* crossing one loop later.
C4_NextCrossing ==
    TickJustRan =>
        \A v \in Voices :
            LET origin == lastTick.origin
                offset == orZero(lastTick.offsets[v])
                L == loopDuration(v)
                at == lastTick.at
                next == lastTick.next[v]
            IN  /\ next > at
                /\ PhaseCrosses(origin, offset, L, next)
                /\ \A T \in (at + 1)..(next - 1) : ~PhaseCrosses(origin, offset, L, T)
                /\ PhaseCrosses(origin, offset, L, at) => next = at + L

\* a tick after the first one of its session read the clock exactly on a crossing
C4_Witness ==
    /\ TickJustRan
    /\ lastTick.at > lastTick.origin
    /\ \E v \in Voices :
          PhaseCrosses(lastTick.origin, orZero(lastTick.offsets[v]), loopDuration(v),
                       lastTick.at)

\* the pending re-arm timers of the scheduler
SchedulerTimers == {t \in timers : t.kind = "scheduler"}

\* the pending restart timers of handleRegenerateClick
RestartTimers == {t \in timers : t.kind = "restart"}

\* C6 as stated: in every state reachable by play(), pause(), togglePlayPause(),
\* resume completions and timer firings, at most one scheduler re-arm timer is
\* pending (one scheduling loop, never two independent re-arming chains).
C6_SingleLoop == Cardinality(SchedulerTimers) <= 1

\* C7: a step that pauses the engine cancels the pending re-arm (the timer
\* schedulerTimer named is gone and the field is null); and from then until
\* playback is started again no tick runs (no scheduleNotes reads the clock, no
\* re-arm timer is added) and nothing is committed.
C7_PauseCancels ==
    [][ /\ (isPlaying /\ ~isPlaying') =>
              /\ schedulerTimer' = null
              /\ \A t \in SchedulerTimers' : t.id # schedulerTimer
        /\ (~isPlaying /\ ~isPlaying') =>
              /\ lastTick' = lastTick
              /\ log' = log
              /\ scheduledNotes' = scheduledNotes
              /\ Cardinality(SchedulerTimers') <= Cardinality(SchedulerTimers)
      ]_vars

\* the engine was paused in the middle of a session and has stayed paused past
\* the time at which the cancelled re-arm would have run
C7_Witness ==
    /\ ~isPlaying
    /\ lastOp = "pause"
    /\ lastTick.at > lastTick.origin
    /\ now > lastTick.at + lookahead
    /\ SchedulerTimers = {}

\* the offset tables a generation can leave: one outcome of Math.random() for
\* all the voices, or no offset at all before the first generation
WholeTables == {OffsetDraw(d) : d \in Draws} \cup {[v \in Voices |-> undefined]}

\* C8: regeneration atomicity: the offsets a frame draws by and the offsets a
\* tick reads are always those of one whole generation, never some voices of
\* the table before a regenerate and others of the table after it.
C8_RegenerationAtomic ==
    /\ drawnOffsets \in WholeTables
    /\ lastTick.offsets \in WholeTables

\* a regenerate replaced the table the latest tick had read, and the frame it
\* drew shows the new table
C8_Witness ==
    /\ lastOp = "handleRegenerateClick"
    /\ lastTick.at >= 0
    /\ lastTick.offsets # randomOffset
    /\ drawnOffsets = randomOffset

\* a step of handleRegenerateClick
RegenerateStep == opsLeft' = opsLeft - 1 /\ lastOp' = "handleRegenerateClick"

\* C9: a regenerate while playing pauses the engine, re-rolls every offset and
\* arms the restart; a regenerate while idle re-rolls every offset and leaves the
\* engine idle with no restart armed; whenever playback starts, startTime is the
\* clock reading of that moment; and a pending restart leads to playback.
C9_RegenerateResumes ==
    /\ [][ /\ (RegenerateStep /\ isPlaying) =>
                 /\ ~isPlaying'
                 /\ \E d \in Draws : randomOffset' = OffsetDraw(d)
                 /\ RestartTimers' # {}
           /\ (RegenerateStep /\ ~isPlaying) =>
                 /\ ~isPlaying'
                 /\ \E d \in Draws : randomOffset' = OffsetDraw(d)
                 /\ RestartTimers' = RestartTimers
           /\ (~isPlaying /\ isPlaying') => startTime' = now'
         ]_vars
    /\ (RestartTimers # {}) ~> isPlaying

\* playback has resumed after a regenerate, with an origin later than the paused
\* session's and with the re-rolled offsets
C9_Witness ==
    /\ lastOp = "handleRegenerateClick"
    /\ isPlaying
    /\ RestartTimers = {}
    /\ startTime > 0
    /\ lastTick.offsets = randomOffset

AllDefined == \A v \in Voices : randomOffset[v] # undefined

\* a step of generateRandomStartTimes() without force
GenerateStep == opsLeft' = opsLeft - 1 /\ lastOp' = "generateRandomStartTimes"

C11_SecondCallDiffers ==
    [][ (AllDefined /\ GenerateStep) => randomOffset' # randomOffset ]_vars

\* the runs in which offsets are generated, every voice's Math.random() call
\* having its own outcome: the two constructors, then calls of
\* generateRandomStartTimes with and without forceRegenerate
VisualizationInitEach ==
    /\ "visualization" \notin booted
    /\ \E m \in Outcomes :
          Becomes(draw(calculateInitialOffsetsEach(
                          calculateOrbitRadii(takeVoices(resize(State))), m)))
    /\ booted' = booted \cup {"visualization"}
    /\ UNCHANGED <<now, wall, lastOp, horizon, opsLeft, lateLeft>>

EngineInitEach ==
    /\ "ui" \notin booted
    /\ \E m \in Outcomes :
          Becomes(initSettles(handleAudioLoaded(
                      generateRandomStartTimesEach(uiControlsInit(State, "running"),
                                                   FALSE, m)), "fulfilled: true"))
    /\ booted' = booted \cup {"ui"}
    /\ UNCHANGED <<now, wall, lastOp, horizon, opsLeft, lateLeft>>

GenerateEach == \E m \in Outcomes :
    External("generateRandomStartTimes",
             generateRandomStartTimesEach(State, FALSE, m))

GenerateEachForced == \E m \in Outcomes :
    External("generateRandomStartTimes(true)",
             generateRandomStartTimesEach(State, TRUE, m))

InitOffsets == Loaded /\ ShortRun(1)

NextOffsets ==
    \/ VisualizationInitEach
    \/ EngineInitEach
    \/ GenerateEach
    \/ GenerateEachForced

OffsetSpec == InitOffsets /\ [][NextOffsets]_vars

\* C12: once a constructor has generated offsets, every voice's randomOffset is
\* a number with 0 <= randomOffset < loopDuration, in every state that follows
\* (after init, after the visualization's fallback, after a forced
\* regeneration), whatever the outcome of each voice's own Math.random() call.
C12_OffsetsInRange ==
    /\ booted # {} => AllDefined
    /\ \A v \in Voices :
          randomOffset[v] # undefined =>
              (0 <= randomOffset[v] /\ randomOffset[v] < loopDuration(v))

\* a forced regeneration has just drawn voice 0 from one outcome and the other
\* voices from another
C12_Witness ==
    /\ lastOp = "generateRandomStartTimes(true)"
    /\ randomOffset[0] = OffsetDraw(0)[0]
    /\ \A v \in Voices \ {0} : randomOffset[v] = OffsetDraw(1)[v]

\* drawDots: the loopPosition it computes for voice v of this.voices in the
\* current state, as
\* its numerator over loopDuration(v); audioEngine.getCurrentTime() is
\* currentTime - startTime while playing
drawDotsLoopPosition(v) ==
    LET offset == orZero(voicesOfVisualization(State)[v])
    IN  IF ~isPlaying
        THEN loopPositionIdle(offset, loopDuration(v))
        ELSE loopPositionPlaying(now - startTime, offset, loopDuration(v))

\* C13 as stated: once the visualization exists, the sampler's value for every
\* voice, playing or idle, is in [0, 1): never negative and never equal to 1.
C13_AsStated ==
    "visualization" \in booted =>
        \A v \in Voices :
            0 <= drawDotsLoopPosition(v) /\ drawDotsLoopPosition(v) < loopDuration(v)

\* C13: once the visualization exists, the sampler's value for every voice,
\* playing or idle, is in (0, 1]: never negative and never 0; it is exactly 1
\* where the voice is on the reference (at its trigger instants, and with
\* offset 0 when idle or at the origin).
C13_SamplerRange ==
    "visualization" \in booted =>
        \A v \in Voices :
            0 < drawDotsLoopPosition(v) /\ drawDotsLoopPosition(v) <= loopDuration(v)

\* while playing, the clock stands on a trigger instant of a voice after the
\* origin and the sampler's value for it is 1
C13_Witness ==
    /\ isPlaying
    /\ now > startTime
    /\ \E v \in Voices :
          /\ CommitsOf(v, now) # {}
          /\ drawDotsLoopPosition(v) = loopDuration(v)

\* a scheduler tick in which playNote throws for a voice whose next trigger is
\* inside the window (the synthesis call is rejected)
SchedulerTickThrows ==
    \E t \in timers, failing \in Voices :
        /\ Settled
        /\ t.kind = "scheduler"
        /\ t.remaining <= 0
        /\ isPlaying
        /\ nextNoteTime(startTime, orZero(randomOffset[failing]),
                        loopDuration(failing), now) < now + scheduleAheadTime
        /\ Becomes(scheduleNotesThrows([State EXCEPT !.timers = @ \ {t}], failing))
        /\ lastOp' = "playNote throws"
        /\ UNCHANGED <<now, wall, booted, horizon, opsLeft, lateLeft>>

NextThrows == NextOneCall \/ SchedulerTickThrows

\* the runs of at most one call from outside in which playNote may throw
ThrowSpec == InitOneCall /\ [][NextThrows]_vars

\* a step in which a tick ran and playNote threw
ThrowStep == lastOp' = "playNote throws" /\ timers' # timers

\* C14 as stated: when playNote fails for one voice during a tick, the tick
\* still commits every other voice whose next trigger is inside the window,
\* and the next tick is still armed.
C14_TickSurvivesFailure ==
    [][ ThrowStep =>
          /\ \E t \in timers' : t.kind = "scheduler" /\ t.id = schedulerTimer'
          /\ \E failing \in Voices : \A v \in Voices \ {failing} :
                LET next == nextNoteTime(startTime, orZero(randomOffset[v]),
                                         loopDuration(v), now)
                IN  next < now + scheduleAheadTime =>
                        \E i \in DOMAIN log' :
                            /\ log'[i].voice = v
                            /\ log'[i].time = next
                            /\ log'[i].at = now ]_vars

\* C15 as stated: while the audio context is suspended (currentTime does not
\* advance) no tick of the scheduler runs and nothing is committed, whether the
\* context was suspended at play() or became suspended during playback, and
\* startTime does not change when the context runs again.
C15_NoTickWhileSuspended ==
    [][ /\ (ctxState = "suspended" /\ ctxState' = "suspended") =>
              (lastTick' = lastTick /\ log' = log)
        /\ (ctxState = "suspended" /\ ctxState' = "running") =>
              startTime' = startTime ]_vars

\* the runs of up to MaxCalls calls of the transport (play, pause,
\* togglePlayPause), timers never late
InitTransport == Loaded /\ horizon = ShortTime /\ opsLeft = MaxCalls /\ lateLeft = 0

NextTransport ==
    \/ VisualizationInit
    \/ EngineInit
    \/ Play
    \/ Pause
    \/ TogglePlayPause
    \/ ResumeResolves
    \/ RunWaiter
    \/ AdvanceClock
    \/ SchedulerTick

TransportSpec == InitTransport /\ [][NextTransport]_vars

\* a session is playing that started after a pause()
Restarted == isPlaying /\ pausedSession # NoSession

\* C16 as stated: the origin of a session started after a pause() is strictly
\* greater than the origin of the session that was paused.
C16_AsStated == Restarted => startTime > pausedSession.origin

\* C16: the origin of a session started after a pause() is the clock reading
\* of its start, which is at least the reading at the pause(), which is at
\* least the origin of the session that was paused; it is strictly greater
\* than that origin whenever the clock advanced in between.
C16_NewOrigin ==
    Restarted =>
        /\ startTime >= pausedSession.at
        /\ pausedSession.at >= pausedSession.origin
        /\ \A i \in DOMAIN log : log[i].at >= startTime

\* a session started after a pause() that came later than the paused
\* session's start
C16_Witness ==
    /\ Restarted
    /\ lastOp \in {"play", "togglePlayPause"}
    /\ pausedSession.at > pausedSession.origin
    /\ startTime > pausedSession.origin

\* voice v has a commit in the current session at an instant that the paused
\* session had committed for it
Replayed(v) ==
    \E i \in DOMAIN log, j \in DOMAIN pausedSession.log :
        /\ log[i].voice = v
        /\ pausedSession.log[j].voice = v
        /\ log[i].time = pausedSession.log[j].time

\* C17 as stated: a session started after a pause() commits for no voice an
\* instant that the paused session had committed for that voice.
C17_AsStated == Restarted => \A v \in Voices : ~Replayed(v)

\* C17: every instant a session started after a pause() commits is later than
\* the clock reading at that pause(), so no trigger that was due before the
\* pause is committed again; an instant the paused session had committed is
\* committed again only when the two origins are a whole number of the voice's
\* loops apart (in particular equal: play() at the clock reading the paused
\* session started at), and it is then an instant that was still to come at
\* the pause().
C17_NoReplay ==
    Restarted =>
        \A v \in Voices :
            /\ (startTime - pausedSession.origin) % loopDuration(v) # 0 => ~Replayed(v)
            /\ \A i \in DOMAIN log :
                  log[i].voice = v => log[i].time > pausedSession.at

\* a session started after a pause(), at a later origin, has committed a
\* trigger for a voice that the paused session had committed a trigger for
C17_Witness ==
    /\ Restarted
    /\ startTime > pausedSession.origin
    /\ \E v \in Voices :
          /\ \E i \in DOMAIN log : log[i].voice = v
          /\ \E j \in DOMAIN pausedSession.log : pausedSession.log[j].voice = v

\* the tick at the clock reading `at` committed the instant T for voice v
TickCommitted(v, T, at) ==
    \E i \in DOMAIN log :
        log[i] = [voice |-> v, time |-> T, at |-> at, via |-> "tick"]

\* C18: a tick commits a voice's next trigger if and only if that instant is
\* strictly less than the tick's clock reading plus scheduleAheadTime (0.5 s):
\* an instant 0.55 s or exactly 0.5 s ahead is left to a later tick, and is
\* committed by the tick 0.1 s later.
C18_WindowStrict ==
    TickJustRan =>
        LET at == lastTick.at
            next == lastTick.next
        IN  \A v \in Voices :
                TickCommitted(v, next[v], at) <=> next[v] < at + scheduleAheadTime

\* the tick 0.1 s after the origin has just run: it committed a voice whose
\* trigger was 0.55 s ahead of the tick before and a voice whose trigger was
\* exactly 0.5 s ahead of it, and neither had been committed until now
C18_Witness ==
    /\ TickJustRan
    /\ lastTick.at = lastTick.origin + lookahead
    /\ \E v, w \in Voices :
          /\ lastTick.next[v] = lastTick.origin + scheduleAheadTime + 1
          /\ lastTick.next[w] = lastTick.origin + scheduleAheadTime
          /\ TickCommitted(v, lastTick.next[v], lastTick.at)
          /\ TickCommitted(w, lastTick.next[w], lastTick.at)
          /\ \A i \in DOMAIN log :
                log[i].voice \in {v, w} => log[i].at = lastTick.at

\* the runs of the worked scenario: the page has booted with the context
\* running, Math.random() gave the voice of loopDuration 20.1 s (voice 1) the
\* offset 5.0 s and the others 0, and play is called once, early in the run
InitScenario ==
    /\ now = 0
    /\ wall = 0
    /\ ctxState = "running"
    /\ isPlaying = FALSE
    /\ startTime = 0
    /\ scheduledNotes = <<>>
    /\ schedulerTimer = null
    /\ randomOffset = [v \in Voices |-> IF v = 1 THEN 100 ELSE 0]
    /\ timers = {}
    /\ resumeWaiters = <<>>
    /\ isLoaded = TRUE
    /\ booted = {"visualization", "ui"}
    /\ isAnimating = FALSE
    /\ rafPending = 0
    /\ drawnOffsets = [v \in Voices |-> IF v = 1 THEN 100 ELSE 0]
    /\ visVoices = [array |-> "audioEngine.voices", offsets |-> [v \in Voices |-> undefined]]
    /\ onNoteStart = "handleNoteStart"
    /\ initPromise = "fulfilled: true"
    /\ loadingIndicator = "hidden"
    /\ playPauseButtonDisabled = FALSE
    /\ octaveShift = -1
    /\ frequency = [v \in Voices |-> shiftedFrequency(baseFrequency(v), -1)]
    /\ orbitRadius = [v \in Voices |-> undefined]
    /\ container = [clientWidth |-> 600, clientHeight |-> 600]
    /\ maxRadius = undefined
    /\ log = <<>>
    /\ lastTick = NoTick
    /\ pausedSession = NoSession
    /\ unstopped = 0
    /\ playStateChanges = <<>>
    /\ lastOp = "load"
    /\ horizon = ScenarioTime
    /\ opsLeft = 1
    /\ lateLeft = 0

NextScenario ==
    \/ Play
    \/ HandlePlayPauseClick
    \/ AdvanceClock
    \/ SchedulerTick
    \/ Frame

ScenarioSpec == InitScenario /\ [][NextScenario]_vars

\* C19: for the voice with loopDuration 20.1 s and randomOffset 5.0 s, the
\* trigger instants are 15.1 s and 35.2 s after the origin: every tick before
\* 15.1 s computes the first, every tick from 15.1 s to before 35.2 s computes
\* the second, and nothing else is committed for the voice; 10 s after the
\* origin the adjusted elapsed time is 15 s and the sampler's loopPosition is
\* 1 - (15 mod 20.1) / 20.1 = 5.1 / 20.1, which is 0.2537 to four places.
C19_Scenario ==
    isPlaying =>
        /\ timeUntilCrossing(randomOffset[1], loopDuration(1)) = 302
        /\ \A i \in DOMAIN log :
              log[i].voice = 1 => log[i].time \in {startTime + 302, startTime + 704}
        /\ (now < startTime + 302 - scheduleAheadTime) =>
              \A i \in DOMAIN log : log[i].voice # 1
        /\ (TickJustRan /\ now < startTime + 302) =>
              lastTick.next[1] = startTime + 302
        /\ (TickJustRan /\ now >= startTime + 302 /\ now < startTime + 704) =>
              lastTick.next[1] = startTime + 704
        /\ (now = startTime + 200) =>
              /\ adjustedElapsedTime(startTime, randomOffset[1], now) = 300
              /\ drawDotsLoopPosition(1) = 102
              /\ 2537 * loopDuration(1) <= drawDotsLoopPosition(1) * 10000
              /\ drawDotsLoopPosition(1) * 10000 < 2538 * loopDuration(1)

\* with origin 0, both triggers of the voice have been committed, at 15.1 s
\* and at 35.2 s
C19_Witness ==
    /\ isPlaying
    /\ startTime = 0
    /\ \E i, j \in DOMAIN log :
          /\ log[i].voice = 1 /\ log[i].time = 302
          /\ log[j].voice = 1 /\ log[j].time = 704

\* C20: once the visualization exists, while the engine is not playing (before
\* the first play, after every pause) the sampler's loopPosition of every voice is 1 - randomOffset /
\* loopDuration, the value of the playing formula at playback time 0; and a
\* start of playback leaves every voice's loopPosition where the idle
\* arrangement had it.
C20_IdleIsOrigin ==
    [][ /\ ("visualization" \in booted /\ ~isPlaying) =>
              \A v \in Voices :
                  /\ drawDotsLoopPosition(v) = loopDuration(v) - orZero(randomOffset[v])
                  /\ drawDotsLoopPosition(v) =
                         loopPositionPlaying(0, orZero(randomOffset[v]), loopDuration(v))
        /\ ("visualization" \in booted /\ ~isPlaying /\ isPlaying') =>
              \A v \in Voices : drawDotsLoopPosition(v)' = drawDotsLoopPosition(v) ]_vars

\* playback has just started again after a pause, with offsets that are not 0:
\* the clock stands on the new origin and every dot is where it was while idle
C20_Witness ==
    /\ isPlaying
    /\ pausedSession # NoSession
    /\ now = startTime
    /\ now > 0
    /\ \A v \in Voices :
          /\ randomOffset[v] > 0
          /\ drawDotsLoopPosition(v) = loopPositionIdle(randomOffset[v], loopDuration(v))

\* C21: once the visualization exists, the offset the sampler reads for a
\* voice (through Visualization.voices) is the offset the scheduler reads for
\* it (through AudioEngine.voices), in every state; a tick that has just run
\* used those same offsets; whichever constructor runs second keeps the offsets
\* the first assigned; and after a regenerate click both sides, and the dots
\* drawn, have the new values.
C21_SharedOffsets ==
    [][ /\ "visualization" \in booted' =>
              /\ voicesOfVisualization(State)' = randomOffset'
              /\ TickJustRan' => lastTick'.offsets = voicesOfVisualization(State)'
        /\ (booted # {} /\ booted' # booted) => randomOffset' = randomOffset
        /\ (opsLeft' = opsLeft - 1 /\ lastOp' = "handleRegenerateClick") =>
              /\ \E d \in Draws : randomOffset' = OffsetDraw(d)
              /\ drawnOffsets' = randomOffset' ]_vars

\* playback has restarted after a regenerate click that re-rolled the offsets:
\* the tick that has just run, the dots drawn and the sampler all have the new
\* offsets
C21_Witness ==
    /\ lastOp = "handleRegenerateClick"
    /\ pausedSession # NoSession
    /\ TickJustRan
    /\ randomOffset = OffsetDraw(1)
    /\ lastTick.offsets = randomOffset
    /\ drawnOffsets = randomOffset
    /\ voicesOfVisualization(State) = randomOffset

\* C22 as stated: a pause() of a playing engine calls stop() on every source
\* playNote has created since the engine last became playing, and leaves
\* scheduledNotes empty.
C22_PauseStopsAll ==
    [][ (isPlaying /\ ~isPlaying') => (unstopped' = 0 /\ scheduledNotes' = <<>>) ]_vars

\* a step that generates offsets: a constructor, generateRandomStartTimes, or
\* the regenerate click
GenerationStep ==
    \/ booted' # booted
    \/ opsLeft' = opsLeft - 1 /\
           lastOp' \in {"generateRandomStartTimes", "handleRegenerateClick"}

\* C23: play(), pause(), togglePlayPause(), the play button, the callbacks that
\* start playback and the scheduler's ticks leave every voice's randomOffset
\* as it was: randomOffset changes only in a step that generates offsets.
C23_OffsetsUntouched ==
    [][ randomOffset' # randomOffset => GenerationStep ]_vars

\* the engine has played with offsets that are not 0, ticked after its start,
\* and has been paused: the offsets are still the ones its ticks used
C23_Witness ==
    /\ ~isPlaying
    /\ lastOp \in {"pause", "togglePlayPause"}
    /\ pausedSession # NoSession
    /\ lastTick.at > lastTick.origin
    /\ lastTick.origin = pausedSession.origin
    /\ randomOffset = OffsetDraw(1)
    /\ lastTick.offsets = randomOffset

\* C24: pause() on an engine that is not playing changes nothing: isPlaying,
\* startTime, schedulerTimer, scheduledNotes, the pending timers and every
\* randomOffset stay as they were, and onPlayStateChange is not called.
C24_IdlePauseNoOp ==
    [][ (~isPlaying /\ opsLeft' = opsLeft - 1 /\ lastOp' = "pause") =>
            UNCHANGED <<isPlaying, startTime, schedulerTimer, scheduledNotes,
                        randomOffset, timers, resumeWaiters, playStateChanges>> ]_vars

\* pause() has been called on an engine that had played and been paused already
C24_Witness ==
    /\ lastOp = "pause"
    /\ opsLeft = 0
    /\ ~isPlaying
    /\ playStateChanges = <<TRUE, FALSE>>

\* C25: a frame of the render loop (animate: draw, drawDots, and the request
\* of the next frame) changes nothing of the engine: isPlaying, startTime,
\* every randomOffset, the scheduler's timer and the pending timers, the
\* sources, the pending resume callbacks and the notifications stay as they
\* were; and in every state, playing or idle, a draw() changes nothing but
\* the picture.
C25_RenderReadOnly ==
    [][ /\ Frame =>
              UNCHANGED <<isPlaying, startTime, randomOffset, schedulerTimer, timers,
                          scheduledNotes, resumeWaiters, ctxState, isLoaded, visVoices,
                          log, lastTick, playStateChanges>>
        /\ [draw(State) EXCEPT !.drawnOffsets = drawnOffsets] = State ]_vars

\* the render loop is running during playback, after the origin, with a frame
\* requested and the scheduler's timer pending
C25_Witness ==
    /\ isPlaying
    /\ isAnimating
    /\ rafPending > 0
    /\ now > startTime
    /\ \E t \in timers : t.kind = "scheduler"
    /\ drawnOffsets = randomOffset

\* the commits made at clock reading `at` by the pass named `via`
CommitsAt(via, at) ==
    {[voice |-> log[i].voice, time |-> log[i].time] :
        i \in {j \in 1..Len(log) : log[j].via = via /\ log[j].at = at}}

\* C26: at the origin of a session the start pass and the generic tick agree
\* on the first trigger: for every voice startTime + loopDuration - randomOffset
\* is the instant the tick formula gives at currentTime = startTime, the
\* window condition of the start pass holds exactly when the tick's holds,
\* and the commits of the start pass made at the origin are the commits of
\* the tick made at the origin.
C26_StartPassIsGeneric ==
    /\ \A v \in Voices :
          LET offset == orZero(randomOffset[v])
              L == loopDuration(v)
          IN  /\ startTime + timeUntilCrossing(offset, L)
                    = nextNoteTime(startTime, offset, L, startTime)
              /\ (timeUntilCrossing(offset, L) < scheduleAheadTime)
                    <=> (nextNoteTime(startTime, offset, L, startTime)
                            < startTime + scheduleAheadTime)
    /\ isPlaying => CommitsAt("initial", startTime) = CommitsAt("tick", startTime)

\* a restarted session whose start pass committed a first trigger
C26_Witness ==
    /\ Restarted
    /\ startTime > 0
    /\ CommitsAt("initial", startTime) # {}
    /\ CommitsAt("tick", startTime) # {}

\* C27: whenever scheduleNotes has run, for every voice the time from the
\* tick's clock reading to the nextNoteTime it computed is at least 0 and at
\* most the voice's loopDuration.
C27_NextNoteWithinLoop ==
    lastTick # NoTick =>
        \A v \in Voices :
            /\ lastTick.next[v] - lastTick.at >= 0
            /\ lastTick.next[v] - lastTick.at <= loopDuration(v)

\* a tick after the origin, with a voice that has wrapped past its first
\* crossing and a voice of non-zero offset that has not
C27_Witness ==
    /\ lastTick # NoTick
    /\ lastTick.at > lastTick.origin
    /\ \E v \in Voices :
          /\ orZero(lastTick.offsets[v]) > 0
          /\ lastTick.at - lastTick.origin + orZero(lastTick.offsets[v]) > loopDuration(v)
    /\ \E v \in Voices :
          /\ orZero(lastTick.offsets[v]) > 0
          /\ lastTick.at - lastTick.origin + orZero(lastTick.offsets[v]) < loopDuration(v)

\* the octave shifts setOctaveShift is called with
OctaveShifts == {-1, 0, 1}

\* the sides the container is resized to (for which the radii are whole numbers)
ContainerSizes == {600, 1200}

\* audioEngine.setOctaveShift(shift), called from outside
SetOctaveShift == \E shift \in OctaveShifts :
    External("setOctaveShift", setOctaveShift(State, shift))

\* the window is resized: the container has a new size and the listener runs resize()
Resize == \E w \in ContainerSizes, h \in ContainerSizes :
    External("resize",
             resize([State EXCEPT !.container = [clientWidth |-> w, clientHeight |-> h]]))

\* the callback of setOctaveShift's setTimeout: play()
OctaveRestartFires == \E t \in timers : t.kind = "octave" /\ TimerFires(t)

\* the runs in which the voices' fields are written: start-up, the transport,
\* regeneration, setOctaveShift and resizes
InitVoices == Loaded /\ ShortRun(MaxOps)

NextVoices ==
    \/ VisualizationInit
    \/ EngineInit
    \/ Play
    \/ Pause
    \/ HandleRegenerateClick
    \/ SetOctaveShift
    \/ Resize
    \/ ResumeResolves
    \/ RunWaiter
    \/ AdvanceClock
    \/ SchedulerTick
    \/ RestartFires
    \/ OctaveRestartFires
    \/ Frame

VoiceSpec == InitVoices /\ [][NextVoices]_vars

\* the radius calculateOrbitRadii gives voice v for the current maxRadius
RadiusOf(v) ==
    maxRadius - sortedIndex(v) * ((maxRadius - (maxRadius * 2) \div 10) \div (NumVoices - 1))

\* C29 as stated: once the visualization and the engine are set up, no step
\* (setOctaveShift and resize included) changes a per-voice field other than
\* randomOffset.
C29_AsStated ==
    [][ Ready => UNCHANGED <<frequency, orbitRadius>> ]_vars

\* C29: there are 7 voices with loop durations 17.8, 20.1, 31.8, 19.6, 16.2,
\* 21.3, 24.7 s in that order. Three per-voice fields are written after
\* construction: randomOffset by generation; frequency by setOctaveShift and by
\* nothing else, always baseFrequency * 2^octaveShift; orbitRadius by the
\* visualization's init and by resize and by nothing else, always the
\* equidistant radius of the voice's rank by loop duration once the
\* visualization holds the engine's voices.
C29_VoiceTable ==
    [][ /\ Voices = 0..6
        /\ [v \in Voices |-> loopDuration(v)]
              = [v \in Voices |-> <<356, 402, 636, 392, 324, 426, 494>>[v + 1]]
        /\ frequency' # frequency => lastOp' = "setOctaveShift" /\ opsLeft' = opsLeft - 1
        /\ orbitRadius' # orbitRadius =>
              \/ booted' # booted /\ "visualization" \in booted'
              \/ lastOp' = "resize" /\ opsLeft' = opsLeft - 1
        /\ randomOffset' # randomOffset => GenerationStep
        /\ frequency' = [v \in Voices |-> shiftedFrequency(baseFrequency(v), octaveShift')]
        /\ "visualization" \in booted' =>
              orbitRadius' = [v \in Voices |-> RadiusOf(v)'] ]_vars

\* setOctaveShift has moved the frequencies off their first values and a
\* resize has moved the radii off theirs
C29_Witness ==
    /\ octaveShift = 1
    /\ frequency = [v \in Voices |-> 2 * baseFrequency(v)]
    /\ maxRadius = 510
    /\ orbitRadius[2] = 510
    /\ orbitRadius[4] = 102
    /\ \A v \in Voices : randomOffset[v] # undefined

\* JavaScript's a % L for L > 0: the remainder has the sign of a
jsRemainder(a, L) == IF a >= 0 THEN a % L ELSE 0 - ((0 - a) % L)

\* the test's expectedLoopPosition, as its numerator over L:
\* effectiveTime = time - randomOffset, 1 - ((effectiveTime % L) / L)
expectedLoopPosition(time, offset, L) == L - jsRemainder(time - offset, L)

C28_MatchedPairs ==
    /\ Len(scheduledNotes) = (IF isPlaying THEN Len(log) ELSE 0)
    /\ isPlaying =>
          \A i \in DOMAIN log :
              /\ scheduledNotes[i].time = log[i].time
              /\ scheduledNotes[i].frequency = frequency[log[i].voice]
              /\ scheduledNotes[i].frequency # frequency[(log[i].voice + 1) % NumVoices]

\* a session, started after setOctaveShift moved the frequencies, whose start
\* pass and whose tick have both committed
C28_Witness ==
    /\ isPlaying
    /\ octaveShift # -1
    /\ \E i \in DOMAIN log : log[i].via = "initial"
    /\ \E i \in DOMAIN log : log[i].via = "tick" /\ log[i].at > startTime

\* C31 as stated: a pause is sticky: whenever the latest call of the transport
\* is pause(), the engine is not playing, whatever resume() was pending when
\* pause() was called and whenever it completes.
C31_PauseSticky ==
    lastOp = "pause" => ~isPlaying

\* C33 as stated: the values onPlayStateChange has been called with alternate
\* true, false, true, ...: the first is true and no two in a row are equal;
\* the latest one is the current isPlaying.
C33_NotificationsAlternate ==
    /\ \A i \in DOMAIN playStateChanges : playStateChanges[i] = (i % 2 = 1)
    /\ playStateChanges # <<>> => playStateChanges[Len(playStateChanges)] = isPlaying

\* the audio context refuses to resume: every pending resume() promise is rejected
ResumeRejects ==
    /\ ctxState = "suspended"
    /\ resumeWaiters # <<>>
    /\ Becomes(resumeRejected(State))
    /\ lastOp' = "resumeRejected"
    /\ UNCHANGED <<now, wall, booted, horizon, opsLeft, lateLeft>>

\* the runs of the transport in which the platform may suspend the context and
\* a resume may fail
NextResume ==
    \/ NextTransport
    \/ Suspend
    \/ ResumeRejects

ResumeSpec == InitTransport /\ [][NextResume]_vars

\* C34: when the resume play() asked for is rejected, the transport stays
\* idle: isPlaying is false before and after, and startTime, the scheduler's
\* timer, the pending timers, the sources, the commits and the
\* onPlayStateChange notifications are as they were.
C34_FailedResumeStaysIdle ==
    [][ (ResumeRejects /\ \E i \in DOMAIN resumeWaiters : resumeWaiters[i] = "startPlayback") =>
            /\ ~isPlaying
            /\ ~isPlaying'
            /\ UNCHANGED <<startTime, schedulerTimer, timers, scheduledNotes, log,
                           playStateChanges, lastTick, unstopped>> ]_vars

\* the resume asked for by play() has been rejected and nothing is pending
C34_Witness ==
    /\ lastOp = "resumeRejected"
    /\ ~isPlaying
    /\ resumeWaiters = <<>>
    /\ ctxState = "suspended"
    /\ timers = {}
    /\ \A v \in Voices : randomOffset[v] # undefined

\* the runs of the transport with the two calls that arm a delayed restart
NextRestart ==
    \/ NextTransport
    \/ HandleRegenerateClick
    \/ SetOctaveShift
    \/ RestartFires
    \/ OctaveRestartFires
    \/ Frame

InitRestart == Loaded /\ horizon = RestartTime /\ opsLeft = MaxRestartCalls /\ lateLeft = 0

RestartSpec == InitRestart /\ [][NextRestart]_vars

\* C32 as stated: when the delayed restart armed by a regenerate or by
\* setOctaveShift fires after the user has started the playback again and
\* paused it (the start and the pause of the first session and the start and
\* the pause of the user's have been notified, and pause() is the latest
\* call), the engine is still paused after the timer's callback has run.
C32_RestartRespectsPause ==
    [][ ( /\ RestartFires \/ OctaveRestartFires
          /\ lastOp = "pause"
          /\ Len(playStateChanges) >= 4 ) => ~isPlaying' ]_vars

\* DOMContentLoaded: new UIControls(), whose init() calls audioEngine.init();
\* the audio context is created suspended or running and init() waits for the
\* sample, or creating the context throws ("none") and init() ends at once
UIControlsInit ==
    /\ "ui" \notin booted
    /\ wall < Window
    /\ \E c \in {"none", "suspended", "running"} :
          Becomes(IF c = "none"
                  THEN initThrows(uiControlsInit(State, c))
                  ELSE uiControlsInit(State, c))
    /\ booted' = booted \cup {"ui"}
    /\ UNCHANGED <<now, wall, lastOp, horizon, opsLeft, lateLeft>>

\* the sample and the reverb have loaded: init() runs to its end
EngineInitCompletes ==
    /\ initPromise = "pending"
    /\ Settled
    /\ \E d \in Draws : Becomes(initCompletes(State, d))
    /\ UNCHANGED <<now, wall, booted, lastOp, horizon, opsLeft, lateLeft>>

\* loading the sample or the reverb fails
EngineInitThrows ==
    /\ initPromise = "pending"
    /\ Settled
    /\ Becomes(initThrows(State))
    /\ UNCHANGED <<now, wall, booted, lastOp, horizon, opsLeft, lateLeft>>

\* the runs in which init() is asynchronous: the play button's handler (also
\* reached by the space bar and the media session) and the regenerate button's
\* come in any order with the end of init()
NextLoad ==
    \/ VisualizationInit
    \/ UIControlsInit
    \/ EngineInitCompletes
    \/ EngineInitThrows
    \/ HandlePlayPauseClick
    \/ HandleRegenerateClick
    \/ ResumeResolves
    \/ RunWaiter
    \/ AdvanceClock
    \/ SchedulerTick
    \/ RestartFires
    \/ Frame

LoadSpec == InitRestart /\ [][NextLoad]_vars

\* C36: whenever the engine is playing, init() has completed: isLoaded is
\* true, the promise of init() is fulfilled with true, the audio context
\* exists and every voice has a randomOffset.
C36_NoPlaybackBeforeInit ==
    isPlaying =>
        /\ isLoaded
        /\ initPromise = "fulfilled: true"
        /\ ctxState # "none"
        /\ \A v \in Voices : randomOffset[v] # undefined

\* the engine plays after clicks that came before and after the end of init()
C36_Witness ==
    /\ isPlaying
    /\ isLoaded
    /\ lastOp = "handlePlayPauseClick"
    /\ opsLeft = MaxRestartCalls - 3
    /\ pausedSession = NoSession

\* C37 as stated: once init() has failed, the UI is in its error state:
\* showError has put the loading indicator in its error form, the play button
\* is disabled and onLoaded has not fired.
C37_InitFailureShown ==
    initPromise = "fulfilled: false" =>
        /\ loadingIndicator = "error"
        /\ playPauseButtonDisabled
        /\ ~isLoaded

\* the runs in which the page is driven through its buttons (and the platform
\* may suspend the audio context), with every timer on time
InitButtons == Loaded /\ horizon = ShortTime /\ opsLeft = MaxOps /\ lateLeft = 0

NextButtons ==
    \/ VisualizationInit
    \/ EngineInit
    \/ HandlePlayPauseClick
    \/ HandleRegenerateClick
    \/ Suspend
    \/ ResumeResolves
    \/ RunWaiter
    \/ AdvanceClock
    \/ SchedulerTick
    \/ RestartFires
    \/ Frame

\* a timer of the kind is due and its callback can run
Due(kind) == Settled /\ \E t \in timers : t.kind = kind /\ t.remaining <= 0

\* the clock advances, a timer callback runs once it is due, a resume() the page
\* asked for completes and its callbacks run. The weak fairness of SchedulerTick,
\* RestartFires and RunWaiter is written with their enabling conditions spelled
\* out: WF_vars(A) is []<>(~ENABLED <<A>>_vars) \/ []<><<A>>_vars.
FairSpec ==
    /\ InitButtons
    /\ [][NextButtons]_vars
    /\ WF_vars(AdvanceClock)
    /\ WF_vars(ResumeResolves)
    /\ ([]<>(~Due("scheduler")) \/ []<><<SchedulerTick>>_vars)
    /\ ([]<>(~Due("restart")) \/ []<><<RestartFires>>_vars)
    /\ ([]<>Settled \/ []<><<RunWaiter>>_vars)

\* the runs of up to MaxClicks clicks and suspensions, followed until a delayed
\* restart has fired
InitClicks == Loaded /\ horizon = RestartTime /\ opsLeft = MaxClicks /\ lateLeft = 0

ButtonsSpec == InitClicks /\ [][NextButtons]_vars

\* no callback of the page is waiting: no resume() promise and no restart timer
Quiescent ==
    /\ resumeWaiters = <<>>
    /\ \A t \in timers : t.kind = "scheduler"

\* C35: when the page is driven through its play and regenerate buttons (and
\* the platform may suspend the context), at quiescence the visualization
\* animates exactly when the engine plays, and at most one animation frame is
\* ever requested at a time. The code breaks the first part: after a regenerate
\* during playback, a suspension and two clicks, the restart's play() waits on
\* its own resume(), and its startPlayback runs after the second click's pause
\* and stopAnimation, so the engine plays while nothing animates.
C35_AnimationFollowsTransport ==
    /\ Quiescent => isAnimating = isPlaying
    /\ rafPending <= 1
    /\ isAnimating => rafPending = 1

====
